---- MODULE Spec2Model ----
(***************************************************************************)
(* Verification model of src/app.py: keyword extraction                    *)
(* (extract_jargon_keywords), resume tailoring (tailor_resume) and the     *)
(* word-level diff renderer (make_colored_unified_html, escape_html).      *)
(* Texts are sequences of one-character strings, so that lowercasing,      *)
(* regular-expression scanning, splitting, substring search and escaping   *)
(* are computed character by character as the code computes them.          *)
(***************************************************************************)
EXTENDS Integers, Sequences, FiniteSets, TLC

VARIABLES pc,            \* "ready" before the call, "done" after it returned
          text,          \* extract_jargon_keywords: argument text
          max_count,     \* extract_jargon_keywords: argument max_count
          phrases,       \* local: result of re.findall on text.lower()
          filtered,      \* local: phrases that pass the filter
          ranked,        \* local: sorted (term, count) pairs
          keywords,      \* returned keyword list (also tailor_resume's local)
          resume_text,   \* tailor_resume: argument resume_text
          job_text,      \* tailor_resume: argument job_text
          lines,         \* tailor_resume local: stripped non-empty lines
          matched,       \* tailor_resume local: per line, the matched keywords
          missing,       \* tailor_resume local: keywords absent from the resume
          suggestions,   \* tailor_resume local: keywords named by the bullets
          tailored,      \* tailor_resume: returned text
          orig_text,     \* make_colored_unified_html: argument orig_text
          new_text,      \* make_colored_unified_html: argument new_text
          opcodes,       \* local: sm.get_opcodes()
          parts,         \* local: rendered parts, in order
          html           \* make_colored_unified_html: returned markup

vars == <<pc, text, max_count, phrases, filtered, ranked, keywords,
          resume_text, job_text, lines, matched, missing, suggestions,
          tailored, orig_text, new_text, opcodes, parts, html>>

kwVars == <<text, max_count, phrases, filtered, ranked>>
tailorVars == <<resume_text, job_text, lines, matched, missing, suggestions, tailored>>
diffVars == <<orig_text, new_text, opcodes, parts, html>>

(***************************************************************************)
(* Bounds of the input spaces.                                             *)
(***************************************************************************)
MaxAtoms == 5
MaxCount == 3
MaxResumeAtoms == 3
MaxWords == 3
MaxEscWords == 2
MaxJobAtoms == 2

(***************************************************************************)
(* Characters and generic sequence helpers.                                *)
(***************************************************************************)
LowerCase ==
    <<"a","b","c","d","e","f","g","h","i","j","k","l","m",
      "n","o","p","q","r","s","t","u","v","w","x","y","z">>

UpperCase ==
    <<"A","B","C","D","E","F","G","H","I","J","K","L","M",
      "N","O","P","Q","R","S","T","U","V","W","X","Y","Z">>

Digits == {"0","1","2","3","4","5","6","7","8","9"}

Whitespace == {" ", "\t", "\n"}

Range(f) == {f[i] : i \in DOMAIN f}

Max(S) == CHOOSE x \in S : \A y \in S : y <= x

Min(S) == CHOOSE x \in S : \A y \in S : x <= y

\* the class [a-zA-Z]
Letters == Range(LowerCase) \cup Range(UpperCase)

IsAlpha(c) == c \in Letters

IsWordChar(c) == IsAlpha(c) \/ c \in Digits \/ c = "_"

IsSpace(c) == c \in Whitespace

\* the lowercase letter of every uppercase letter
ToLower == [c \in Range(UpperCase) |->
               LowerCase[CHOOSE i \in DOMAIN UpperCase : UpperCase[i] = c]]

LowerChar(c) == IF c \in DOMAIN ToLower THEN ToLower[c] ELSE c

lower(s) == [i \in DOMAIN s |-> LowerChar(s[i])]

\* concatenation of a sequence of sequences (by halves, to keep the
\* evaluation shallow on long texts)
RECURSIVE Flatten(_)
Flatten(ss) ==
    IF ss = <<>> THEN <<>>
    ELSE IF Len(ss) = 1 THEN ss[1]
    ELSE LET h == Len(ss) \div 2
         IN Flatten(SubSeq(ss, 1, h)) \o Flatten(SubSeq(ss, h + 1, Len(ss)))

\* sep.join(ss)
RECURSIVE join(_, _)
join(sep, ss) ==
    IF ss = <<>> THEN <<>>
    ELSE IF Len(ss) = 1 THEN ss[1]
    ELSE LET h == Len(ss) \div 2
         IN join(sep, SubSeq(ss, 1, h)) \o sep \o join(sep, SubSeq(ss, h + 1, Len(ss)))

\* variant of Take that keeps one entry too many
TakeOffByOne(s, n) == SubSeq(s, 1, IF n + 1 < Len(s) THEN n + 1 ELSE Len(s))

\* s[:n]
Take(s, n) == SubSeq(s, 1, IF n < Len(s) THEN n ELSE Len(s))

Contains(hay, needle) ==
    \E i \in 0..(Len(hay) - Len(needle)) :
        \A k \in 1..Len(needle) : hay[i + k] = needle[k]

\* length of the run of characters satisfying the class, starting at p
LetterRun(s, p) ==
    Min({q \in p..(Len(s) + 1) : q = Len(s) + 1 \/ ~IsAlpha(s[q])}) - p

SpaceRun(s, p) ==
    Min({q \in p..(Len(s) + 1) : q = Len(s) + 1 \/ ~IsSpace(s[q])}) - p

\* str.strip(): drop leading and trailing whitespace
strip(s) ==
    LET ns == {i \in DOMAIN s : ~IsSpace(s[i])}
    IN IF ns = {} THEN <<>> ELSE SubSeq(s, Min(ns), Max(ns))

\* str.split(): the maximal runs of non-whitespace characters, in order
WordStart(s, p) == ~IsSpace(s[p]) /\ (p = 1 \/ IsSpace(s[p - 1]))

WordEnd(s, p) == Min({q \in p..(Len(s) + 1) : q = Len(s) + 1 \/ IsSpace(s[q])})

RECURSIVE WordsIn(_, _, _)
WordsIn(s, lo, hi) ==
    IF lo > hi THEN <<>>
    ELSE IF lo = hi
         THEN (IF WordStart(s, lo) THEN <<SubSeq(s, lo, WordEnd(s, lo) - 1)>> ELSE <<>>)
    ELSE LET mid == (lo + hi) \div 2
         IN WordsIn(s, lo, mid) \o WordsIn(s, mid + 1, hi)

split(s) == WordsIn(s, 1, Len(s))

\* str.split("\n"): the pieces between line feeds, empty pieces included
RECURSIVE SplitLinesFrom(_, _)
SplitLinesFrom(s, p) ==
    LET e == Min({q \in p..(Len(s) + 1) : q = Len(s) + 1 \/ s[q] = "\n"})
    IN IF e = Len(s) + 1 THEN <<SubSeq(s, p, Len(s))>>
       ELSE <<SubSeq(s, p, e - 1)>> \o SplitLinesFrom(s, e + 1)

splitlines(s) == SplitLinesFrom(s, 1)

isdigit(s) == s # <<>> /\ \A i \in DOMAIN s : s[i] \in Digits

(***************************************************************************)
(* STOPWORDS, as in the source.                                            *)
(***************************************************************************)
STOPWORDS ==
    {
      <<"a">>, <<"a","n">>, <<"t","h","e">>, <<"a","n","d">>, <<"o","r">>,
      <<"b","u","t">>, <<"f","o","r">>, <<"f","r","o","m">>, <<"i","n">>, <<"o","n">>,
      <<"t","o">>, <<"w","i","t","h">>, <<"b","y">>, <<"a","s">>, <<"a","t">>,
      <<"o","f">>, <<"b","e">>, <<"b","e","e","n">>, <<"b","e","i","n","g">>, <<"a","m">>,
      <<"i","s">>, <<"a","r","e">>, <<"w","a","s">>, <<"w","e","r","e">>, <<"w","i","l","l">>,
      <<"c","a","n">>, <<"m","u","s","t">>, <<"s","h","o","u","l","d">>, <<"c","o","u","l","d">>, <<"m","a","y">>,
      <<"m","i","g","h","t">>, <<"w","o","u","l","d">>, <<"h","a","v","e">>, <<"h","a","s">>, <<"h","a","d">>,
      <<"d","o">>, <<"d","o","e","s">>, <<"d","i","d">>, <<"n","o","t">>, <<"y","o","u","r">>,
      <<"t","h","e","i","r">>, <<"o","u","r">>, <<"m","y">>, <<"i","t","s">>, <<"y","o","u">>,
      <<"t","h","e","y">>, <<"w","e">>, <<"i">>, <<"t","h","i","s">>, <<"t","h","a","t">>,
      <<"t","h","e","s","e">>, <<"t","h","o","s","e">>, <<"s","u","c","h">>, <<"o","t","h","e","r">>, <<"m","o","r","e">>,
      <<"s","o","m","e">>, <<"m","a","n","y">>, <<"f","e","w">>, <<"a","b","o","u","t">>, <<"i","t">>,
      <<"t","h","e","m">>, <<"u","s">>, <<"h","e","r">>, <<"h","i","m">>, <<"s","h","e">>,
      <<"h","e">>, <<"w","h","e","r","e">>, <<"w","h","e","n">>, <<"h","o","w">>, <<"w","h","a","t">>,
      <<"w","h","o">>, <<"w","h","i","c","h">>, <<"i","f">>, <<"t","h","e","n">>, <<"e","l","s","e">>,
      <<"t","h","a","n">>, <<"b","e","c","a","u","s","e">>, <<"s","i","n","c","e">>, <<"u","n","t","i","l">>, <<"w","h","i","l","e">>,
      <<"a","l","t","h","o","u","g","h">>, <<"t","h","o","u","g","h">>, <<"b","e","f","o","r","e">>, <<"a","f","t","e","r">>, <<"a","b","o","v","e">>,
      <<"b","e","l","o","w">>, <<"b","e","t","w","e","e","n">>, <<"d","u","r","i","n","g">>, <<"p","e","r">>, <<"e","a","c","h">>,
      <<"e","v","e","r","y">>, <<"o","w","n">>, <<"s","a","m","e">>, <<"s","o">>, <<"v","e","r","y">>,
      <<"i","n","t","o">>, <<"o","v","e","r">>, <<"u","n","d","e","r">>, <<"a","r","o","u","n","d">>, <<"o","u","t">>,
      <<"u","p">>, <<"d","o","w","n">>, <<"o","f","f">>, <<"a","c","r","o","s","s">>, <<"n","e","a","r">>,
      <<"f","a","r">>, <<"m","u","c","h">>, <<"a","l","s","o">>, <<"e","v","e","n">>
    }

(***************************************************************************)
(* The regular expression of extract_jargon_keywords,                      *)
(*   \b[a-zA-Z]{3,}(?:\s+[a-zA-Z]{3,}){0,2}\b                              *)
(* matched the way re.findall does: leftmost, greedy with backtracking,    *)
(* non-overlapping.  Positions are 1-based; a match end is the position    *)
(* of the first character after the match; 0 stands for no match.          *)
(***************************************************************************)
WordAt(s, p) == p >= 1 /\ p <= Len(s) /\ IsWordChar(s[p])

\* \b between s[p-1] and s[p]
Boundary(s, p) == WordAt(s, p - 1) # WordAt(s, p)

MinTokenLen == 3

MaxGroups == 2

\* (?:\s+[a-zA-Z]{3,}){0,k}\b tried at p: the longest whitespace run and
\* the longest letter run are tried first, shorter ones on backtracking,
\* and zero repetitions last.
RECURSIVE GroupTail(_, _, _)
GroupTail(s, p, k) ==
    LET Ok(m, n) == GroupTail(s, p + m + n, k - 1) # 0
        ms == IF k = 0 THEN {}
              ELSE {m \in 1..SpaceRun(s, p) :
                       \E n \in MinTokenLen..LetterRun(s, p + m) : Ok(m, n)}
    IN IF ms # {}
       THEN LET m == Max(ms)
                n == Max({n \in MinTokenLen..LetterRun(s, p + m) : Ok(m, n)})
            IN GroupTail(s, p + m + n, k - 1)
       ELSE IF Boundary(s, p) THEN p ELSE 0

MatchAt(s, p) ==
    IF ~Boundary(s, p) THEN 0
    ELSE LET ns == {n \in MinTokenLen..LetterRun(s, p) :
                        GroupTail(s, p + n, MaxGroups) # 0}
         IN IF ns = {} THEN 0 ELSE GroupTail(s, p + Max(ns), MaxGroups)

RECURSIVE FindAllFrom(_, _)
FindAllFrom(s, p) ==
    IF p > Len(s) THEN <<>>
    ELSE LET e == MatchAt(s, p)
         IN IF e = 0 THEN FindAllFrom(s, p + 1)
            ELSE <<SubSeq(s, p, e - 1)>> \o FindAllFrom(s, e)

findall(s) == FindAllFrom(s, 1)

(***************************************************************************)
(* extract_jargon_keywords                                                 *)
(***************************************************************************)
AllStopwords(p) == \A w \in Range(split(p)) : w \in STOPWORDS

MaxPhraseWords == 3

\* variant of Keep that drops a phrase as soon as one word is a stopword
KeepAnyStopword(p) ==
    /\ \A w \in Range(split(p)) : w \notin STOPWORDS
    /\ Len(split(p)) <= MaxPhraseWords
    /\ ~isdigit(p)

Keep(p) == ~AllStopwords(p) /\ Len(split(p)) <= MaxPhraseWords /\ ~isdigit(p)

RECURSIVE FilterPhrases(_)
FilterPhrases(ps) ==
    IF ps = <<>> THEN <<>>
    ELSE IF Keep(Head(ps)) THEN <<strip(Head(ps))>> \o FilterPhrases(Tail(ps))
    ELSE FilterPhrases(Tail(ps))

\* dict.fromkeys / Counter key order: first occurrences, in order
RECURSIVE Dedup(_)
Dedup(ps) ==
    IF ps = <<>> THEN <<>>
    ELSE LET front == Dedup(SubSeq(ps, 1, Len(ps) - 1))
             last == ps[Len(ps)]
         IN IF last \in Range(front) THEN front ELSE Append(front, last)

Count(ps, x) == Cardinality({i \in DOMAIN ps : ps[i] = x})

\* Counter(filtered).items(): (term, count) pairs in first-seen order
CounterItems(ps) == [i \in DOMAIN Dedup(ps) |-> <<Dedup(ps)[i], Count(ps, Dedup(ps)[i])>>]

\* the sort key (len(x[0].split()), x[1]) and tuple comparison
SortKey(item) == <<Len(split(item[1])), item[2]>>

KeyLess(k1, k2) == k1[1] < k2[1] \/ (k1[1] = k2[1] /\ k1[2] < k2[2])

\* variant of InsertDesc that puts an item before the items of equal key
InsertDescUnstable(sorted, item) ==
    LET before == {i \in DOMAIN sorted : KeyLess(SortKey(item), SortKey(sorted[i]))}
        n == IF before = {} THEN 0 ELSE Max(before)
    IN SubSeq(sorted, 1, n) \o <<item>> \o SubSeq(sorted, n + 1, Len(sorted))

\* sorted(..., reverse=True) is stable: an item goes after every item
\* already placed whose key is not smaller
InsertDesc(sorted, item) ==
    LET before == {i \in DOMAIN sorted : ~KeyLess(SortKey(sorted[i]), SortKey(item))}
        n == IF before = {} THEN 0 ELSE Max(before)
    IN SubSeq(sorted, 1, n) \o <<item>> \o SubSeq(sorted, n + 1, Len(sorted))

RECURSIVE SortedDesc(_)
SortedDesc(items) ==
    IF items = <<>> THEN <<>>
    ELSE InsertDesc(SortedDesc(SubSeq(items, 1, Len(items) - 1)), items[Len(items)])

Phrases(t) == findall(lower(t))

Filtered(t) == FilterPhrases(Phrases(t))

Ranked(t) == SortedDesc(CounterItems(Filtered(t)))

Terms(items) == [i \in DOMAIN items |-> items[i][1]]

DefaultMaxCount == 40

\* list(dict.fromkeys([term for term, _ in ranked[:max_count]]))
KeywordsOf(r, mc) == Dedup(Terms(Take(r, mc)))

extract_jargon_keywords(t, mc) ==
    IF t = <<>> THEN <<>>
    ELSE KeywordsOf(Ranked(t), mc)

ScenarioText ==
    <<
       "L","o","o","k","i","n","g"," ","f","o","r"," ","a"," ","D","a",
       "t","a"," ","E","n","g","i","n","e","e","r"," ","w","i","t","h",
       " ","e","x","p","e","r","i","e","n","c","e"," ","i","n"," ","c",
       "l","o","u","d"," ","i","n","f","r","a","s","t","r","u","c","t",
       "u","r","e"," ","a","n","d"," ","d","a","t","a"," ","i","n","f",
       "r","a","s","t","r","u","c","t","u","r","e","."
    >>

(***************************************************************************)
(* Inputs of the keyword extraction: texts assembled from a few words      *)
(* (plain, capitalised, stopword) and separators, and a few longer texts   *)
(* with short words, digits, underscores, tabs and line feeds.             *)
(***************************************************************************)
KwAtoms ==
    { <<"s","q","l">>, <<"A","p","i">>, <<"t","h","e">>, <<" ">>, <<".">> }

AtomTexts(atoms, n) ==
    {Flatten(as) : as \in UNION {[1..k -> atoms] : k \in 0..n}}

ExtraTexts ==
    { <<"s","q","l","\t","a","p","i","\n","t","h","e"," "," ","s","q","l">>,
      <<"s","q","l","1"," ","a","p","i">>,
      <<"s","q","l"," ","a","p","i","_","x">>,
      <<"1","2","3"," ","s","q","l">>,
      <<"s","q","l"," ","o","f"," ","a","p","i"," ","a"," ","t","h","e">>,
      <<"s","q","l",".","a","p","i",".","x","y","z",".","x","y","z">>,
      <<"s","q","l"," ","a","p","i"," ","t","h","e"," ","s","q","l"," ","a","p","i"," ","t","h","e">>,
      <<"a","p","i",".","s","q","l",".","s","q","l"," ","t","h","e",".","a","p","i"," ","o","f">> }

KwInputs ==
    ((AtomTexts(KwAtoms, MaxAtoms) \cup ExtraTexts) \X (0..MaxCount))
        \cup {<<ScenarioText, 5>>}

Idle ==
    /\ keywords = <<>>
    /\ phrases = <<>> /\ filtered = <<>> /\ ranked = <<>>
    /\ lines = <<>> /\ matched = <<>> /\ missing = <<>>
    /\ suggestions = <<>> /\ tailored = <<>>
    /\ opcodes = <<>> /\ parts = <<>>

InitKw ==
    /\ pc = "ready"
    /\ \E in \in KwInputs : text = in[1] /\ max_count = in[2]
    /\ resume_text = <<>> /\ job_text = <<>>
    /\ orig_text = <<>> /\ new_text = <<>> /\ html = <<>>
    /\ Idle

\* the locals of the call, each computed from the one before
WithRanked(ph, f, r) ==
    /\ phrases' = ph
    /\ filtered' = f
    /\ ranked' = r
    /\ keywords' = KeywordsOf(r, max_count)

WithFiltered(ph, f) == WithRanked(ph, f, SortedDesc(CounterItems(f)))

WithPhrases(ph) == WithFiltered(ph, FilterPhrases(ph))

\* one call extract_jargon_keywords(text, max_count)
ExtractKeywords ==
    /\ pc = "ready"
    /\ pc' = "done"
    /\ IF text = <<>>
       THEN phrases' = <<>> /\ filtered' = <<>> /\ ranked' = <<>> /\ keywords' = <<>>
       ELSE WithPhrases(Phrases(text))
    /\ UNCHANGED <<text, max_count>>
    /\ UNCHANGED tailorVars
    /\ UNCHANGED diffVars

NextKw == ExtractKeywords

SpecKw == InitKw /\ [][NextKw]_vars

(***************************************************************************)
(* tailor_resume                                                           *)
(***************************************************************************)
\* [l.strip() for l in resume_text.split("\n") if l.strip()]
RECURSIVE StripNonEmpty(_)
StripNonEmpty(ls) ==
    IF ls = <<>> THEN <<>>
    ELSE IF strip(Head(ls)) # <<>>
         THEN <<strip(Head(ls))>> \o StripNonEmpty(Tail(ls))
         ELSE StripNonEmpty(Tail(ls))

Lines(r) == StripNonEmpty(splitlines(r))

\* variant of LowerResume that joins the lines without the space
LowerResumeNoSpace(ls) == lower(join(<<>>, ls))

\* " ".join(lines).lower()
LowerResume(ls) == lower(join(<<" ">>, ls))

\* [k for k in keywords if k not in lower_resume]
RECURSIVE Missing(_, _)
Missing(kws, lr) ==
    IF kws = <<>> THEN <<>>
    ELSE IF ~Contains(lr, Head(kws))
         THEN <<Head(kws)>> \o Missing(Tail(kws), lr)
         ELSE Missing(Tail(kws), lr)

\* variant of Matched that compares with the line as written
RECURSIVE MatchedCaseSensitive(_, _)
MatchedCaseSensitive(kws, line) ==
    IF kws = <<>> THEN <<>>
    ELSE IF Contains(line, Head(kws))
         THEN <<Head(kws)>> \o MatchedCaseSensitive(Tail(kws), line)
         ELSE MatchedCaseSensitive(Tail(kws), line)

\* [k for k in keywords if k in line.lower()]
RECURSIVE Matched(_, _)
Matched(kws, line) ==
    IF kws = <<>> THEN <<>>
    ELSE IF Contains(lower(line), Head(kws))
         THEN <<Head(kws)>> \o Matched(Tail(kws), line)
         ELSE Matched(Tail(kws), line)

SuggestionLimit == 10

\* the returned text, line by line: every resume line with its annotation
\* (an empty annotation renders as the bare line), the blank line, the
\* header, and one bullet per suggested keyword
TailoredLines(ls, kws) ==
    [i \in DOMAIN ls |->
        [kind |-> "line", body |-> ls[i], annotation |-> Matched(kws, ls[i])]]

Bullets(sugg) ==
    [i \in DOMAIN sugg |->
        [kind |-> "suggestion", body |-> sugg[i], annotation |-> <<>>]]

Render(ls, kws, sugg) ==
    TailoredLines(ls, kws)
        \o << [kind |-> "blank", body |-> <<>>, annotation |-> <<>>],
              [kind |-> "header", body |-> <<>>, annotation |-> <<>>] >>
        \o Bullets(sugg)

\* resumes: words and capitalised words, blanks and line feeds
ResumeAtoms == { <<"s","q","l">>, <<"A","p","i">>, <<" ">>, <<"\n">> }

JobAtoms == { <<"s","q","l">>, <<"A","p","i">>, <<" ">>, <<".">> }

\* a job text with more distinct keywords than the suggestion limit
LongJob ==
    <<"s","q","l",".","a","p","i",".","a","a","a",".","b","b","b",".",
      "c","c","c",".","d","d","d",".","e","e","e",".","f","f","f",".",
      "g","g","g",".","h","h","h",".","i","i","i",".","j","j","j",".",
      "k","k","k",".","s","q","l"," ","a","p","i">>

\* job texts with a phrase of two words, single- and double-spaced
TwoWordJobs ==
    { <<"s","q","l"," ","A","p","i">>,
      <<"s","q","l"," "," ","A","p","i">>,
      <<"A","p","i",".","s","q","l"," ","A","p","i">> }

JobTexts == AtomTexts(JobAtoms, MaxJobAtoms) \cup TwoWordJobs \cup {LongJob}

InitTailor ==
    /\ pc = "ready"
    /\ resume_text \in AtomTexts(ResumeAtoms, MaxResumeAtoms)
    /\ job_text \in JobTexts
    /\ text = <<>> /\ max_count = DefaultMaxCount
    /\ orig_text = <<>> /\ new_text = <<>> /\ html = <<>>
    /\ Idle

\* one call tailor_resume(resume_text, job_text)
TailorResume ==
    /\ pc = "ready"
    /\ pc' = "done"
    /\ LET kws == extract_jargon_keywords(job_text, DefaultMaxCount)
           ls == Lines(resume_text)
           miss == Missing(kws, LowerResume(ls))
           sugg == Take(miss, SuggestionLimit)
       IN /\ keywords' = kws
          /\ lines' = ls
          /\ missing' = miss
          /\ matched' = [i \in DOMAIN ls |-> Matched(kws, ls[i])]
          /\ suggestions' = sugg
          /\ tailored' = Render(ls, kws, sugg)
    /\ UNCHANGED <<resume_text, job_text>>
    /\ UNCHANGED kwVars
    /\ UNCHANGED diffVars

NextTailor == TailorResume

SpecTailor == InitTailor /\ [][NextTailor]_vars

(***************************************************************************)
(* difflib.SequenceMatcher(a=orig_words, b=new_words).get_opcodes(), as    *)
(* used by make_colored_unified_html: isjunk is None, autojunk is on.      *)
(* Indices are 0-based and ranges half-open, as in the library.            *)
(***************************************************************************)
AutoJunkMin == 200

\* no junk predicate is given, so the junk set is empty
bjunk == {}

\* elements dropped from b2j as "popular"
Popular(b) ==
    IF Len(b) >= AutoJunkMin
    THEN {e \in Range(b) : Count(b, e) > (Len(b) \div 100) + 1}
    ELSE {}

\* newj2len[j] at row i: the length of the run of equal elements that ends
\* at a[i], b[j], stays inside the window and uses only elements of b2j
RECURSIVE J2Len(_, _, _, _, _, _, _)
J2Len(a, b, pop, alo, blo, i, j) ==
    IF i < alo \/ j < blo THEN 0
    ELSE IF a[i + 1] # b[j + 1] \/ b[j + 1] \in pop \/ b[j + 1] \in bjunk THEN 0
    ELSE J2Len(a, b, pop, alo, blo, i - 1, j - 1) + 1

\* how far a block can be extended backwards / forwards over equal
\* elements that are (inJunk) or are not junk
ExtendBack(a, b, alo, blo, i, j, inJunk) ==
    Max({t \in 0..(i - alo) :
            /\ t <= j - blo
            /\ \A u \in 1..t : /\ (b[j - u + 1] \in bjunk) = inJunk
                               /\ a[i - u + 1] = b[j - u + 1]})

ExtendForward(a, b, ahi, bhi, i, j, inJunk) ==
    Max({t \in 0..(ahi - i) :
            /\ t <= bhi - j
            /\ \A u \in 1..t : /\ (b[j + u] \in bjunk) = inJunk
                               /\ a[i + u] = b[j + u]})

\* the first cell, rows then columns ascending, whose run has length best
\* (the test k > bestsize keeps the first one)
FirstBest(a, b, pop, alo, blo, cells, best) ==
    CHOOSE c \in cells :
        /\ J2Len(a, b, pop, alo, blo, c[1], c[2]) = best
        /\ \A d \in cells :
              J2Len(a, b, pop, alo, blo, d[1], d[2]) = best =>
                  (c[1] < d[1] \/ (c[1] = d[1] /\ c[2] <= d[2]))

BlockEndingAt(c, best) == <<c[1] - best + 1, c[2] - best + 1, best>>

BestOf(a, b, pop, alo, blo, cells) ==
    IF cells = {} THEN 0
    ELSE Max({J2Len(a, b, pop, alo, blo, c[1], c[2]) : c \in cells})

LongestAmong(a, b, pop, alo, blo, cells, best) ==
    IF best = 0 THEN <<alo, blo, 0>>
    ELSE BlockEndingAt(FirstBest(a, b, pop, alo, blo, cells, best), best)

\* the cells (i, j) with a[i] = b[j], b[j] in b2j, inside the window
Cells(a, b, pop, alo, ahi, blo, bhi) ==
    {c \in (alo..(ahi - 1)) \X (blo..(bhi - 1)) :
        /\ b[c[2] + 1] \notin pop
        /\ b[c[2] + 1] \notin bjunk
        /\ a[c[1] + 1] = b[c[2] + 1]}

LongestOfCells(a, b, pop, alo, blo, cells) ==
    LongestAmong(a, b, pop, alo, blo, cells, BestOf(a, b, pop, alo, blo, cells))

\* the first loop of find_longest_match: the longest block of elements of b2j
LongestInB2j(a, b, pop, alo, ahi, blo, bhi) ==
    LongestOfCells(a, b, pop, alo, blo, Cells(a, b, pop, alo, ahi, blo, bhi))

\* one pair of extension loops on the block m: backwards, then forwards
ExtendBlock(a, b, alo, ahi, blo, bhi, m, inJunk) ==
    <<m[1] - ExtendBack(a, b, alo, blo, m[1], m[2], inJunk),
      m[2] - ExtendBack(a, b, alo, blo, m[1], m[2], inJunk),
      m[3] + ExtendBack(a, b, alo, blo, m[1], m[2], inJunk)
           + ExtendForward(a, b, ahi, bhi, m[1] + m[3], m[2] + m[3], inJunk)>>

\* variant of find_longest_match without the extension loops
FindLongestNoExtension(a, b, pop, alo, ahi, blo, bhi) ==
    LongestInB2j(a, b, pop, alo, ahi, blo, bhi)

\* the longest block of b2j, extended over non-junk and then over junk
find_longest_match(a, b, pop, alo, ahi, blo, bhi) ==
    ExtendBlock(a, b, alo, ahi, blo, bhi,
        ExtendBlock(a, b, alo, ahi, blo, bhi,
            LongestInB2j(a, b, pop, alo, ahi, blo, bhi), FALSE),
        TRUE)

\* the blocks found by the work queue of get_matching_blocks, after
\* matching_blocks.sort(): the blocks left of a match x sort before it and
\* the blocks right of it after it
RECURSIVE FoundBlocks(_, _, _, _, _, _, _)
AroundMatch(a, b, pop, alo, ahi, blo, bhi, x) ==
    IF x[3] = 0 THEN <<>>
    ELSE (IF alo < x[1] /\ blo < x[2]
          THEN FoundBlocks(a, b, pop, alo, x[1], blo, x[2]) ELSE <<>>)
         \o <<x>>
         \o (IF x[1] + x[3] < ahi /\ x[2] + x[3] < bhi
             THEN FoundBlocks(a, b, pop, x[1] + x[3], ahi, x[2] + x[3], bhi) ELSE <<>>)

FoundBlocks(a, b, pop, alo, ahi, blo, bhi) ==
    AroundMatch(a, b, pop, alo, ahi, blo, bhi,
                find_longest_match(a, b, pop, alo, ahi, blo, bhi))

\* collapse adjacent blocks
RECURSIVE NonAdjacent(_, _)
NonAdjacent(cur, blocks) ==
    IF blocks = <<>> THEN (IF cur[3] # 0 THEN <<cur>> ELSE <<>>)
    ELSE LET nxt == Head(blocks)
         IN IF cur[1] + cur[3] = nxt[1] /\ cur[2] + cur[3] = nxt[2]
            THEN NonAdjacent(<<cur[1], cur[2], cur[3] + nxt[3]>>, Tail(blocks))
            ELSE (IF cur[3] # 0 THEN <<cur>> ELSE <<>>)
                 \o NonAdjacent(nxt, Tail(blocks))

get_matching_blocks(a, b) ==
    NonAdjacent(<<0, 0, 0>>, FoundBlocks(a, b, Popular(b), 0, Len(a), 0, Len(b)))
        \o << <<Len(a), Len(b), 0>> >>

\* variant of OpTag that reports a replace when only one side has a gap
OpTagOr(i, j, ai, bj) ==
    IF i < ai \/ j < bj THEN "replace"
    ELSE IF i < ai THEN "delete"
    ELSE IF j < bj THEN "insert"
    ELSE ""

OpTag(i, j, ai, bj) ==
    IF i < ai /\ j < bj THEN "replace"
    ELSE IF i < ai THEN "delete"
    ELSE IF j < bj THEN "insert"
    ELSE ""

RECURSIVE OpcodesFrom(_, _, _)
OpcodesFrom(i, j, blocks) ==
    IF blocks = <<>> THEN <<>>
    ELSE LET ai == Head(blocks)[1]
             bj == Head(blocks)[2]
             size == Head(blocks)[3]
             tag == OpTag(i, j, ai, bj)
         IN (IF tag # ""
             THEN << [tag |-> tag, i1 |-> i, i2 |-> ai, j1 |-> j, j2 |-> bj] >>
             ELSE <<>>)
            \o (IF size # 0
                THEN << [tag |-> "equal", i1 |-> ai, i2 |-> ai + size,
                         j1 |-> bj, j2 |-> bj + size] >>
                ELSE <<>>)
            \o OpcodesFrom(ai + size, bj + size, Tail(blocks))

get_opcodes(a, b) == OpcodesFrom(0, 0, get_matching_blocks(a, b))

(***************************************************************************)
(* escape_html and make_colored_unified_html                               *)
(***************************************************************************)
\* str.replace(c, rep) for a one-character pattern
replace(s, c, rep) ==
    Flatten([i \in DOMAIN s |-> IF s[i] = c THEN rep ELSE <<s[i]>>])

\* variant of escape_html that replaces & last
escape_html_amp_last(s) ==
    replace(replace(replace(replace(s,
        "<", <<"&","l","t",";">>),
        ">", <<"&","g","t",";">>),
        "\"", <<"&","q","u","o","t",";">>),
        "&", <<"&","a","m","p",";">>)

escape_html(s) ==
    replace(replace(replace(replace(s,
        "&", <<"&","a","m","p",";">>),
        "<", <<"&","l","t",";">>),
        ">", <<"&","g","t",";">>),
        "\"", <<"&","q","u","o","t",";">>)

\* words[i1:i2]
Slice(ws, i1, i2) == SubSeq(ws, i1 + 1, i2)

\* the parts appended for one opcode: style and escaped text
PartsOf(op, ow, nw) ==
    LET old == escape_html(join(<<" ">>, Slice(ow, op.i1, op.i2)))
        new == escape_html(join(<<" ">>, Slice(nw, op.j1, op.j2)))
    IN IF op.tag = "equal" THEN << [style |-> "normal", body |-> old] >>
       ELSE IF op.tag = "insert" THEN << [style |-> "add", body |-> new] >>
       ELSE IF op.tag = "delete" THEN << [style |-> "del", body |-> old] >>
       ELSE IF op.tag = "replace"
            THEN << [style |-> "rep_old", body |-> old],
                    [style |-> "rep_new", body |-> new] >>
       ELSE <<>>

RECURSIVE PartsFrom(_, _, _)
PartsFrom(ops, ow, nw) ==
    IF ops = <<>> THEN <<>>
    ELSE PartsOf(Head(ops), ow, nw) \o PartsFrom(Tail(ops), ow, nw)

\* the markup of one part: characters of text are one-character strings,
\* every tag written by the renderer is one longer string
SpanOpen(style) == "<span " \o style \o ">"

PartHtml(p) ==
    IF p.style = "normal" THEN p.body
    ELSE <<SpanOpen(p.style)>> \o p.body \o <<"</span>">>

HtmlBody(ps) ==
    <<"<div>">> \o join(<<" ">>, [i \in DOMAIN ps |-> PartHtml(ps[i])]) \o <<"</div>">>

DiffWords == { <<"x">>, <<"y">>, <<"z">> }

EscWords == { <<"a">>, <<"&">>, <<"<",">">>, <<"\"">>, <<"&","l","t",";">> }

WordTexts(words, n) ==
    {join(<<" ">>, ws) : ws \in UNION {[1..k -> words] : k \in 0..n}}

\* texts long enough for the popularity heuristic: one word repeated, and
\* the same with one other word in the middle
LongX == join(<<" ">>, [i \in 1..AutoJunkMin |-> <<"x">>])

LongXY ==
    join(<<" ">>, [i \in 1..(AutoJunkMin + 1) |->
                      IF i = AutoJunkMin \div 2 THEN <<"y">> ELSE <<"x">>])

LongPairs == { <<LongX, LongX>>, <<LongXY, LongXY>>, <<LongX, LongXY>>, <<LongXY, LongX>> }

DiffInputs ==
    (WordTexts(DiffWords, MaxWords) \X WordTexts(DiffWords, MaxWords))
        \cup (WordTexts(EscWords, MaxEscWords) \X WordTexts(EscWords, MaxEscWords))
        \cup LongPairs

InitDiff ==
    /\ pc = "ready"
    /\ \E in \in DiffInputs : orig_text = in[1] /\ new_text = in[2]
    /\ text = <<>> /\ max_count = DefaultMaxCount
    /\ resume_text = <<>> /\ job_text = <<>>
    /\ html = <<>>
    /\ Idle

\* the assignments of the call, given the opcodes and the parts
Rendered(ops, ps) ==
    /\ opcodes' = ops
    /\ parts' = ps
    /\ html' = HtmlBody(ps)

RenderOpcodes(ops, orig_words, new_words) ==
    Rendered(ops, PartsFrom(ops, orig_words, new_words))

DiffWordLists(orig_words, new_words) ==
    RenderOpcodes(get_opcodes(orig_words, new_words), orig_words, new_words)

\* one call make_colored_unified_html(orig_text, new_text)
MakeColoredUnifiedHtml ==
    /\ pc = "ready"
    /\ pc' = "done"
    /\ DiffWordLists(split(orig_text), split(new_text))
    /\ UNCHANGED <<orig_text, new_text, keywords>>
    /\ UNCHANGED kwVars
    /\ UNCHANGED tailorVars

NextDiff == MakeColoredUnifiedHtml

SpecDiff == InitDiff /\ [][NextDiff]_vars

(***************************************************************************)
(* Properties of extract_jargon_keywords (checked under SpecKw).           *)
(***************************************************************************)
NoDuplicates(s) == \A i, j \in DOMAIN s : i # j => s[i] # s[j]

\* C1: the returned list has at most max_count entries, no entry twice, no
\* phrase of more than 3 whitespace-separated words and no phrase made only
\* of stopwords; for the empty text it is the empty list.
C1_BoundedUniqueKeywords ==
    pc = "done" =>
        /\ Len(keywords) <= max_count
        /\ NoDuplicates(keywords)
        /\ \A i \in DOMAIN keywords :
              /\ Len(split(keywords[i])) <= 3
              /\ \E w \in Range(split(keywords[i])) : w \notin STOPWORDS
        /\ (text = <<>> => keywords = <<>>)

\* a call that truncated the ranking and dropped an all-stopword phrase
C1_Witness ==
    /\ pc = "done"
    /\ max_count >= 1
    /\ Len(ranked) > max_count
    /\ Len(keywords) = max_count
    /\ Len(filtered) < Len(phrases)

\* the token sequence of a text: the maximal runs of letters of the
\* lowercased text that have at least 3 letters
RECURSIVE TokensFrom(_, _)
TokensFrom(s, p) ==
    IF p > Len(s) THEN <<>>
    ELSE IF ~IsAlpha(s[p]) THEN TokensFrom(s, p + 1)
    ELSE LET n == LetterRun(s, p)
         IN (IF n >= 3 THEN <<SubSeq(s, p, p + n - 1)>> ELSE <<>>)
            \o TokensFrom(s, p + n)

Tokens(t) == TokensFrom(lower(t), 1)

\* the windows of 1, 2 and 3 consecutive tokens, as (start, length)
Windows(toks) ==
    {w \in (1..Len(toks)) \X (1..3) : w[1] + w[2] - 1 <= Len(toks)}

WindowTokens(toks, w) == SubSeq(toks, w[1], w[1] + w[2] - 1)

Surviving(toks) ==
    {w \in Windows(toks) : \E x \in Range(WindowTokens(toks, w)) : x \notin STOPWORDS}

\* C2: the counted candidates are exactly the sliding windows of 1, 2 and 3
\* tokens that are not made only of stopwords, each with the number of
\* windows of that token sequence as its frequency, and all of them are
\* returned when max_count is at least the number of distinct candidates.
C2_SlidingWindows ==
    pc = "done" =>
        LET toks == Tokens(text)
        IN /\ \A w \in Surviving(toks) :
                 \E r \in Range(ranked) :
                     /\ r[1] = join(<<" ">>, WindowTokens(toks, w))
                     /\ r[2] = Cardinality({v \in Windows(toks) :
                                   WindowTokens(toks, v) = WindowTokens(toks, w)})
           /\ \A r \in Range(ranked) :
                 \E w \in Surviving(toks) : r[1] = join(<<" ">>, WindowTokens(toks, w))
           /\ (Len(ranked) <= max_count =>
                 \A w \in Surviving(toks) :
                     join(<<" ">>, WindowTokens(toks, w)) \in Range(keywords))

IndexOf(s, x) == Min({i \in DOMAIN s : s[i] = x})

HasWord(p, w) == w \in Range(split(p))

DataInfrastructure ==
    <<"d","a","t","a"," ","i","n","f","r","a","s","t","r","u","c","t","u","r","e">>

CloudInfrastructure ==
    <<"c","l","o","u","d"," ","i","n","f","r","a","s","t","r","u","c","t","u","r","e">>

CloudInfrastructureAnd == CloudInfrastructure \o <<" ","a","n","d">>

DataEngineerWith ==
    <<"d","a","t","a"," ","e","n","g","i","n","e","e","r"," ","w","i","t","h">>

LookingFor == <<"l","o","o","k","i","n","g"," ","f","o","r">>

Experience == <<"e","x","p","e","r","i","e","n","c","e">>

ScenarioCall == pc = "done" /\ text = ScenarioText /\ max_count = 5

\* C3 as stated: for the scenario text and max_count = 5 both "data
\* infrastructure" and "cloud infrastructure" are returned, each before
\* "experience", and no returned phrase contains "with", "and", "a" or "in".
C3_ScenarioAsStated ==
    ScenarioCall =>
        /\ DataInfrastructure \in Range(keywords)
        /\ CloudInfrastructure \in Range(keywords)
        /\ Experience \in Range(keywords) =>
              /\ IndexOf(keywords, DataInfrastructure) < IndexOf(keywords, Experience)
              /\ IndexOf(keywords, CloudInfrastructure) < IndexOf(keywords, Experience)
        /\ \A i \in DOMAIN keywords :
              \A w \in {<<"w","i","t","h">>, <<"a","n","d">>, <<"a">>, <<"i","n">>} :
                  ~HasWord(keywords[i], w)

\* C3 (amended): for the scenario text and max_count = 5 the result is
\* "data engineer with", "cloud infrastructure and", "looking for",
\* "data infrastructure", "experience", in this order: "data
\* infrastructure" comes before "experience", "cloud infrastructure" is
\* returned only inside "cloud infrastructure and", and no returned phrase
\* contains the word "a" or "in".
C3_ScenarioResult ==
    ScenarioCall =>
        /\ keywords = <<DataEngineerWith, CloudInfrastructureAnd, LookingFor,
                        DataInfrastructure, Experience>>
        /\ IndexOf(keywords, DataInfrastructure) < IndexOf(keywords, Experience)
        /\ IndexOf(keywords, CloudInfrastructureAnd) < IndexOf(keywords, Experience)
        /\ CloudInfrastructure \notin Range(keywords)
        /\ \A i \in DOMAIN keywords :
              ~HasWord(keywords[i], <<"a">>) /\ ~HasWord(keywords[i], <<"i","n">>)

C3_Witness == ScenarioCall /\ Len(keywords) = 5

\* rank of a candidate, from the candidates in text order
WordCount(k) == Len(split(k))

Frequency(k) == Count(filtered, k)

FirstSeen(k) == IndexOf(filtered, k)

Outranks(x, y) ==
    \/ WordCount(x) > WordCount(y)
    \/ WordCount(x) = WordCount(y) /\ Frequency(x) > Frequency(y)
    \/ WordCount(x) = WordCount(y) /\ Frequency(x) = Frequency(y)
          /\ FirstSeen(x) < FirstSeen(y)

\* C4: an earlier entry has more words than a later one, or as many words
\* and at least its frequency, and with both equal it is the one seen first
\* in the text; the result is the first max_count entries of that ranking.
C4_RankingOrder ==
    pc = "done" =>
        /\ \A i, j \in DOMAIN keywords : i < j => Outranks(keywords[i], keywords[j])
        /\ Range(keywords) \subseteq Range(filtered)
        /\ Len(keywords) = IF max_count < Cardinality(Range(filtered))
                           THEN max_count ELSE Cardinality(Range(filtered))
        /\ \A c \in Range(filtered) \ Range(keywords) :
              \A i \in DOMAIN keywords : Outranks(keywords[i], c)

\* a result with a tie kept in first-seen order and with a more frequent
\* phrase ranked before one seen earlier
C4_Witness ==
    /\ pc = "done"
    /\ \E i, j \in DOMAIN keywords :
          /\ i < j
          /\ WordCount(keywords[i]) = WordCount(keywords[j])
          /\ Frequency(keywords[i]) = Frequency(keywords[j])
    /\ \E i, j \in DOMAIN keywords :
          /\ i < j
          /\ Frequency(keywords[i]) > Frequency(keywords[j])
          /\ FirstSeen(keywords[i]) > FirstSeen(keywords[j])

\* one to three runs of at least 3 lowercase letters, joined by one space
WellFormedPhrase(k) ==
    /\ k # <<>>
    /\ \A i \in DOMAIN k : k[i] \in Range(LowerCase) \/ k[i] = " "
    /\ k[1] # " " /\ k[Len(k)] # " "
    /\ \A i \in 1..(Len(k) - 1) : ~(k[i] = " " /\ k[i + 1] = " ")
    /\ Cardinality({i \in DOMAIN k : k[i] = " "}) <= 2
    /\ \A i \in DOMAIN k :
          (k[i] # " " /\ (i = 1 \/ k[i - 1] = " ")) => LetterRun(k, i) >= 3

\* C9: every returned string consists of 1 to 3 tokens of at least 3
\* lowercase letters, joined by exactly one space and containing no other
\* character.
C9_SingleSpacedPhrases ==
    pc = "done" => \A i \in DOMAIN keywords : WellFormedPhrase(keywords[i])

(***************************************************************************)
(* Properties of tailor_resume (checked under SpecTailor).                 *)
(***************************************************************************)
OfKind(kind) == SelectSeq(tailored, LAMBDA e : e.kind = kind)

Bodies(entries) == [i \in DOMAIN entries |-> entries[i].body]

\* the lowercased single-space join of the resume lines of the output
JoinedResume == lower(join(<<" ">>, Bodies(OfKind("line"))))

MissingKeywords == SelectSeq(keywords, LAMBDA k : ~Contains(JoinedResume, k))

\* C5: every suggested keyword is not a substring of the lowercased joined
\* resume; every annotated keyword is a substring of its lowercased line;
\* an annotation lists the line's matches in keyword-list order; the bullets
\* are the first min(10, number of missing keywords) missing keywords in
\* keyword-list order.
C5_SuggestionsAndAnnotations ==
    pc = "done" =>
        /\ \A k \in Range(Bodies(OfKind("suggestion"))) : ~Contains(JoinedResume, k)
        /\ \A e \in Range(OfKind("line")) :
              /\ \A k \in Range(e.annotation) : Contains(lower(e.body), k)
              /\ e.annotation = SelectSeq(keywords, LAMBDA k : Contains(lower(e.body), k))
        /\ Bodies(OfKind("suggestion")) =
              SubSeq(MissingKeywords, 1,
                     IF Len(MissingKeywords) < 10 THEN Len(MissingKeywords) ELSE 10)

\* more than 10 keywords are missing and a line matches two keywords, one
\* of them only after lowercasing
C5_Witness ==
    /\ pc = "done"
    /\ Len(missing) > 10
    /\ Len(OfKind("suggestion")) = 10
    /\ \E e \in Range(OfKind("line")) :
          /\ Len(e.annotation) >= 2
          /\ \E k \in Range(e.annotation) : ~Contains(e.body, k)

Annotated(k) == \E i \in DOMAIN matched : k \in Range(matched[i])

\* C10 as stated: every keyword is in the annotation of at least one line
\* or in the missing list.
C10_MatchedOrMissing ==
    pc = "done" => \A k \in Range(keywords) : Annotated(k) \/ k \in Range(missing)

\* C10 (amended): every single-word keyword is in the annotation of at
\* least one line or in the missing list, and no keyword is in both; a
\* keyword of several words that occurs in the resume only across the break
\* between two lines is in neither.
C10_SingleWordMatchedOrMissing ==
    pc = "done" =>
        \A k \in Range(keywords) :
            /\ Len(split(k)) = 1 => (Annotated(k) \/ k \in Range(missing))
            /\ ~(Annotated(k) /\ k \in Range(missing))
            /\ (~Annotated(k) /\ k \notin Range(missing)) =>
                  /\ Len(split(k)) > 1
                  /\ Len(lines) > 1
                  /\ Contains(lower(join(<<" ">>, lines)), k)

\* one single-word keyword is annotated, one is missing, and a two-word
\* keyword is neither
C10_Witness ==
    /\ pc = "done"
    /\ \E k \in Range(keywords) : Len(split(k)) = 1 /\ Annotated(k)
    /\ \E k \in Range(keywords) : Len(split(k)) = 1 /\ k \in Range(missing)
    /\ \E k \in Range(keywords) : ~Annotated(k) /\ k \notin Range(missing)

(***************************************************************************)
(* Properties of make_colored_unified_html (checked under SpecDiff).       *)
(***************************************************************************)
Styles == {"add", "del", "rep_old", "rep_new"}

SpanTags == {SpanOpen(s) : s \in Styles}

\* C6: for every text X, the alignment of X against itself has no insert,
\* delete or replace opcode, and the output has no <span> marker.
C6_SelfDiffIsEqual ==
    (pc = "done" /\ orig_text = new_text) =>
        /\ \A i \in DOMAIN opcodes : opcodes[i].tag = "equal"
        /\ \A i \in DOMAIN html : html[i] \notin SpanTags

\* a text against itself that is long enough for the popularity heuristic
\* and has both a popular and an unpopular word
C6_Witness ==
    /\ pc = "done"
    /\ orig_text = new_text
    /\ Len(split(new_text)) >= AutoJunkMin
    /\ Popular(split(new_text)) # {}
    /\ Popular(split(new_text)) # Range(split(new_text))
    /\ opcodes # <<>>

\* number of words covered by equal spans
RECURSIVE EqualWords(_)
EqualWords(ops) ==
    IF ops = <<>> THEN 0
    ELSE (IF Head(ops).tag = "equal" THEN Head(ops).i2 - Head(ops).i1 ELSE 0)
         + EqualWords(Tail(ops))

CommonPrefix(a, b) ==
    Max({t \in 0..Len(a) : t <= Len(b) /\ \A u \in 1..t : a[u] = b[u]})

CommonSuffix(a, b) ==
    Max({t \in 0..Len(a) :
            t <= Len(b) /\ \A u \in 1..t : a[Len(a) - u + 1] = b[Len(b) - u + 1]})

\* length of a longest common subsequence
RECURSIVE LCSLen(_, _)
LCSLen(a, b) ==
    IF a = <<>> \/ b = <<>> THEN 0
    ELSE LET p == CommonPrefix(a, b)
             s == CommonSuffix(a, b)
         IN IF p > 0
            THEN p + LCSLen(SubSeq(a, p + 1, Len(a)), SubSeq(b, p + 1, Len(b)))
            ELSE IF s > 0
            THEN s + LCSLen(SubSeq(a, 1, Len(a) - s), SubSeq(b, 1, Len(b) - s))
            ELSE LET x == LCSLen(Tail(a), b)
                     y == LCSLen(a, Tail(b))
                 IN IF x > y THEN x ELSE y

ValidOpcode(op, a, b) ==
    /\ 0 <= op.i1 /\ op.i1 <= op.i2 /\ op.i2 <= Len(a)
    /\ 0 <= op.j1 /\ op.j1 <= op.j2 /\ op.j2 <= Len(b)
    /\ op.tag \in {"equal", "insert", "delete", "replace"}
    /\ op.tag = "equal" =>
          op.i1 < op.i2 /\ Slice(a, op.i1, op.i2) = Slice(b, op.j1, op.j2)
    /\ op.tag = "insert" => op.i1 = op.i2 /\ op.j1 < op.j2
    /\ op.tag = "delete" => op.i1 < op.i2 /\ op.j1 = op.j2
    /\ op.tag = "replace" => op.i1 < op.i2 /\ op.j1 < op.j2

Entities ==
    { <<"&", <<"&","a","m","p",";">> >>, <<"<", <<"&","l","t",";">> >>,
      <<">", <<"&","g","t",";">> >>, <<"\"", <<"&","q","u","o","t",";">> >> }

StartsAt(s, p, x) == p + Len(x) - 1 <= Len(s) /\ SubSeq(s, p, p + Len(x) - 1) = x

EntityAt(s, p) == {e \in Entities : StartsAt(s, p, e[2])}

\* what a reader of the markup sees: each entity read as its character
Unescape(s) ==
    Flatten([p \in DOMAIN s |->
        IF EntityAt(s, p) # {} THEN <<(CHOOSE e \in EntityAt(s, p) : TRUE)[1]>>
        ELSE IF \E q \in 1..(p - 1) :
                   \E e \in EntityAt(s, q) : p <= q + Len(e[2]) - 1
             THEN <<>>
        ELSE <<s[p]>>])

\* the texts rendered for one opcode, in the order of their parts
SourcesOf(op, a, b) ==
    LET old == join(<<" ">>, Slice(a, op.i1, op.i2))
        new == join(<<" ">>, Slice(b, op.j1, op.j2))
    IN IF op.tag = "replace" THEN <<old, new>>
       ELSE IF op.tag = "insert" THEN <<new>>
       ELSE <<old>>

Sources(ops, a, b) == Flatten([i \in DOMAIN ops |-> SourcesOf(ops[i], a, b)])

\* C8: the characters <, >, & and " of the input words appear in the output
\* only as &lt;, &gt;, &amp; and &quot;: no part and no text of the output
\* holds a bare <, > or ", every & starts one of the four entities, and
\* reading the entities of a part gives back exactly the words it renders.
C8_InputIsEscaped ==
    pc = "done" =>
        LET src == Sources(opcodes, split(orig_text), split(new_text))
        IN /\ \A i \in DOMAIN html : html[i] \notin {"<", ">", "\""}
           /\ \A i \in DOMAIN html : html[i] = "&" => EntityAt(html, i) # {}
           /\ Len(parts) = Len(src)
           /\ \A i \in DOMAIN parts : Unescape(parts[i].body) = src[i]

\* a replace between a word that reads "&lt;" and the word "<>", next to an
\* unchanged word
C8_Witness ==
    /\ pc = "done"
    /\ \E i \in DOMAIN opcodes : opcodes[i].tag = "replace"
    /\ \E i \in DOMAIN opcodes : opcodes[i].tag = "equal"
    /\ <<"&","l","t",";">> \in Range(split(orig_text))
    /\ <<"<",">">> \in Range(split(new_text))

====
